---- MODULE Spec2Model ----
(***************************************************************************)
(* gomail: the connection handler of src/main.go.  One goroutine per       *)
(* accepted connection runs connection.handle, which frames the client's   *)
(* byte stream (readLine, readMultiLine, readToEndOfBody over c.buf) and    *)
(* drives the EHLO / command / header / body dialogue, answering with       *)
(* writeLn.                                                                *)
(*                                                                         *)
(* Spec runs one connection on each of the sessions of Inputs, with the    *)
(* transport free to split reads and writes and to fail.  SpecFrag runs    *)
(* two connections on the same bytes, one of which receives them in a      *)
(* single read.                                                            *)
(*                                                                         *)
(* A byte is a one-character string, a Go string or []byte is a sequence    *)
(* of bytes.  Go indexes from 0: At, Slice and From keep the source's       *)
(* indices, so s[i] is At(s, i), s[lo:hi] is Slice(s, lo, hi) and s[lo:] is *)
(* From(s, lo).                                                            *)
(***************************************************************************)
EXTENDS Integers, Sequences, FiniteSets, TLC

At(s, i) == s[i + 1]

Slice(s, lo, hi) == SubSeq(s, lo + 1, hi)

From(s, lo) == SubSeq(s, lo + 1, Len(s))

(***************************************************************************)
(* The string literals of the source.                                      *)
(***************************************************************************)
CR == "\r"

LF == "\n"

CRLF == <<CR, LF>>

S_EHLO ==
    <<"E", "H", "L", "O">>

S_EHLO_SP ==
    <<"E", "H", "L", "O", " ">>

S_DATA ==
    <<"D", "A", "T", "A">>

S_MAIL_FROM ==
    <<"M", "A", "I", "L", " ", "F", "R", "O", "M">>

S_SIZE_EQ ==
    <<"S", "I", "Z", "E", "=">>

S_GT_SP ==
    <<">", " ">>

S_COLON ==
    <<":">>

S_COLON_SP ==
    <<":", " ">>

S_SUBJECT ==
    <<"S", "U", "B", "J", "E", "C", "T">>

S_TO ==
    <<"T", "O">>

S_FROM ==
    <<"F", "R", "O", "M">>

S_DATE ==
    <<"D", "A", "T", "E">>

Banner ==
    <<"2", "2", "0", " ", "m", "a", "i", "l", ".", "b", "i", "n", "u", "t", "i", "l", "s", ".",
      "o", "r", "g", " ", "E", "S", "M", "T", "P", " ", "g", "o", "m", "a", "i", "l">>

GreetsPrefix ==
    <<"2", "5", "0", "-", "m", "a", "i", "l", ".", "b", "i", "n", "u", "t", "i", "l", "s", ".",
      "o", "r", "g", " ", "g", "r", "e", "e", "t", "s", " ">>

S_250_DASH ==
    <<"2", "5", "0", "-">>

S_8BITMIME ==
    <<"8", "B", "I", "T", "M", "I", "M", "E">>

S_SIZE ==
    <<"S", "I", "Z", "E">>

S_DSN ==
    <<"D", "S", "N">>

S_250_HELP ==
    <<"2", "5", "0", " ", "H", "E", "L", "P">>

S_250_OK ==
    <<"2", "5", "0", " ", "O", "K">>

S_354 ==
    <<"3", "5", "4">>

\* The settings in another order than the source lists them.
ehloSettingsReordered == <<S_SIZE, S_8BITMIME, S_DSN>>

ehloSettings == <<S_8BITMIME, S_SIZE, S_DSN>>

LowerCase ==
    <<"a", "b", "c", "d", "e", "f", "g", "h", "i", "j", "k", "l", "m",
      "n", "o", "p", "q", "r", "s", "t", "u", "v", "w", "x", "y", "z">>

UpperCase ==
    <<"A", "B", "C", "D", "E", "F", "G", "H", "I", "J", "K", "L", "M",
      "N", "O", "P", "Q", "R", "S", "T", "U", "V", "W", "X", "Y", "Z">>

Digits == <<"0", "1", "2", "3", "4", "5", "6", "7", "8", "9">>

\* The white space strings.TrimSpace removes, as far as a byte here can be one.
WhiteSpace == {" ", "\t", "\n", "\r", "\f"}

(***************************************************************************)
(* The library functions handle calls, computed as the library computes    *)
(* them.                                                                   *)
(***************************************************************************)
HasPrefix(s, prefix) ==
    /\ Len(s) >= Len(prefix)
    /\ Slice(s, 0, Len(prefix)) = prefix

\* strings.Index: the 0-based place of the first sep in s, or -1.
Index(s, sep) ==
    LET at(i) == Slice(s, i, i + Len(sep)) = sep
        places == {i \in 0..(Len(s) - Len(sep)) : at(i)}
    IN  IF places = {} THEN -1
        ELSE CHOOSE i \in places : \A j \in places : i <= j

\* strings.SplitN(s, sep, 2), for a sep that is not empty.
SplitN2(s, sep) ==
    LET i == Index(s, sep)
    IN  IF i < 0 THEN <<s>>
        ELSE <<Slice(s, 0, i), From(s, i + Len(sep))>>

ToUpperByte(b) ==
    IF \E i \in 1..26 : LowerCase[i] = b
    THEN UpperCase[CHOOSE i \in 1..26 : LowerCase[i] = b]
    ELSE b

RECURSIVE ToUpper(_)
ToUpper(s) ==
    IF s = <<>> THEN <<>>
    ELSE <<ToUpperByte(Head(s))>> \o ToUpper(Tail(s))

TrimSpace(s) ==
    LET keep == {i \in 1..Len(s) : s[i] \notin WhiteSpace}
    IN  IF keep = {} THEN <<>>
        ELSE SubSeq(s, CHOOSE i \in keep : \A j \in keep : i <= j,
                       CHOOSE i \in keep : \A j \in keep : j <= i)

IsDigit(b) == \E d \in 1..10 : Digits[d] = b

DigitValue(b) == (CHOOSE d \in 1..10 : Digits[d] = b) - 1

RECURSIVE DecimalValue(_)
DecimalValue(s) ==
    IF s = <<>> THEN 0
    ELSE 10 * DecimalValue(SubSeq(s, 1, Len(s) - 1)) + DigitValue(s[Len(s)])

\* strconv.Atoi: an optional sign and at least one decimal digit, anything
\* else is a syntax error and gives 0.  (The values used here stay far below
\* the range error of a 64-bit int.)
Atoi(s) ==
    LET signed == s # <<>> /\ s[1] \in {"+", "-"}
        digits == IF signed THEN Tail(s) ELSE s
        ok     == digits # <<>> /\ \A i \in 1..Len(digits) : IsDigit(digits[i])
    IN  IF ~ok THEN [err |-> TRUE, n |-> 0]
        ELSE [err |-> FALSE,
              n   |-> IF signed /\ s[1] = "-" THEN 0 - DecimalValue(digits)
                      ELSE DecimalValue(digits)]

\* A Go map[string]string: a function whose domain is the set of its keys.
EmptyMap == [k \in {} |-> <<>>]

MapPut(m, k, v) == [x \in DOMAIN m \cup {k} |-> IF x = k THEN v ELSE m[x]]

(***************************************************************************)
(* The scans of the Frame Reader.  Each is the set of indices i of buf at  *)
(* which the source's loop would return; the loop runs over i upwards, so  *)
(* it returns at the least of them.                                        *)
(***************************************************************************)
Least(S) == CHOOSE i \in S : \A j \in S : i <= j

\* readLine: b == '\n' && i > 0 && c.buf[i-1] == '\r'
IsLineEnd(b, i) ==
    /\ At(b, i) = LF
    /\ i > 0
    /\ At(b, i - 1) = CR

LineEnds(b) == {i \in 0..(Len(b) - 1) : IsLineEnd(b, i)}

\* readMultiLine: i > 1 && b != ' ' && b != '\t' && c.buf[i-2] == '\r' && c.buf[i-1] == '\n'
IsMultiLineEnd(b, i) ==
    /\ i > 1
    /\ At(b, i) # " "
    /\ At(b, i) # "\t"
    /\ At(b, i - 2) = CR
    /\ At(b, i - 1) = LF

MultiLineEnds(b) == {i \in 0..(Len(b) - 1) : IsMultiLineEnd(b, i)}

isBodyClose(b, i) ==
    /\ i > 4
    /\ At(b, i - 4) = CR
    /\ At(b, i - 3) = LF
    /\ At(b, i - 2) = "."
    /\ At(b, i - 1) = CR
    /\ At(b, i - 0) = LF

BodyEnds(b) == {i \in 0..(Len(b) - 1) : isBodyClose(b, i)}

\* readMultiLine's noMoreReads when its scan has run to the end of buf without
\* returning: it is assigned at every index, so it holds the value of the last.
noMoreReads(b) ==
    IF Len(b) = 0 THEN FALSE ELSE isBodyClose(b, Len(b) - 1)

\* What readLine returns and keeps, at line end i.
LineOf(b, i) == Slice(b, 0, i - 1)

AfterLine(b, i) == From(b, i + 1)

\* What readMultiLine returns and keeps, at match i.
MultiLineOf(b, i) == Slice(b, 0, i - 2)

\* A readMultiLine that drops the byte it stopped at as well.
AfterMultiLineSkipping(b, i) == From(b, i + 1)

AfterMultiLine(b, i) == From(b, i)

\* What readToEndOfBody returns at match i; it leaves c.buf as it is.
BodyOf(b, i) == Slice(b, 0, i - 4)

\* writeLn: msg += "\r\n", and msg = msg[n:] after a Write that took n bytes.
Terminated(m) == m \o CRLF

\* A writeLn that keeps the last byte taken in msg and offers it again.
UnwrittenResend(m, n) == From(m, n - 1)

Unwritten(m, n) == From(m, n)

\* b := make([]byte, 1024)
ReadChunk == 1024

(***************************************************************************)
(* The clients.  A client is the bytes it sends; the transport hands them  *)
(* to conn.Read in pieces of its own choosing.                             *)
(***************************************************************************)
Sentinel == CRLF \o <<".">> \o CRLF

RECURSIVE Join(_)
Join(lines) ==
    IF lines = <<>> THEN <<>>
    ELSE Head(lines) \o CRLF \o Join(Tail(lines))

\* The bytes of a well-formed session: the greeting line, the command lines,
\* DATA, the header lines, the empty line, the body and the sentinel.
Dialogue(ehlo, cmds, headers, body) ==
    Join(<<ehlo>> \o cmds \o <<S_DATA>> \o headers \o << <<>> >>) \o body \o Sentinel

EndToEndInput ==
    <<"E", "H", "L", "O", " ", "c", "l", "i", "e", "n", "t", ".", "e", "x", "a", "m", "p", "l",
      "e", "\r", "\n", "M", "A", "I", "L", " ", "F", "R", "O", "M", ":", "<", "a", "@", "b",
      ".", "c", "o", "m", ">", " ", "S", "I", "Z", "E", "=", "4", "2", "\r", "\n", "D", "A",
      "T", "A", "\r", "\n", "S", "u", "b", "j", "e", "c", "t", ":", " ", "h", "i", "\r", "\n",
      "\r", "\n", "b", "o", "d", "y", " ", "t", "e", "x", "t", "\r", "\n", ".", "\r", "\n">>

L_EHLO_X ==
    <<"E", "H", "L", "O", " ", "x">>

L_HELO_X ==
    <<"H", "E", "L", "O", " ", "x">>

L_ehlo_x ==
    <<"e", "h", "l", "o", " ", "x">>

L_EHLOx ==
    <<"E", "H", "L", "O", "x">>

L_RCPT ==
    <<"R", "C", "P", "T", " ", "T", "O", ":", "<", "b", ">">>

L_NOOP ==
    <<"N", "O", "O", "P">>

L_data ==
    <<"d", "a", "t", "a">>

L_MAIL ==
    <<"M", "A", "I", "L", " ", "F", "R", "O", "M", ":">>

L_mail ==
    <<"m", "a", "i", "l", " ", "f", "r", "o", "m", ":">>

V_SIZE_3000 ==
    <<"<", "u", "s", "e", "r", "@", "m", "a", "i", "l", ".", "c", "o", "m", ">", " ", "S", "I",
      "Z", "E", "=", "3", "0", "0", "0">>

V_NO_PARAMS ==
    <<"<", "u", "s", "e", "r", "@", "m", "a", "i", "l", ".", "c", "o", "m", ">">>

V_OTHER_PARAM ==
    <<"<", "u", "@", "m", ">", " ", "B", "O", "D", "Y", "=", "8", "B", "I", "T", "M", "I", "M",
      "E">>

V_SIZE_SECOND ==
    <<"<", "u", "@", "m", ">", " ", "B", "O", "D", "Y", "=", "8", "B", "I", "T", "M", "I", "M",
      "E", " ", "S", "I", "Z", "E", "=", "5">>

V_SIZE_FIRST ==
    <<"<", "u", "@", "m", ">", " ", "S", "I", "Z", "E", "=", "5", " ", "B", "O", "D", "Y", "=",
      "8", "B", "I", "T", "M", "I", "M", "E">>

V_SIZE_NOT_NUMERIC ==
    <<"<", "u", "@", "m", ">", " ", "S", "I", "Z", "E", "=", "x">>

H_SUBJECT_HI ==
    <<"S", "u", "b", "j", "e", "c", "t", ":", " ", "h", "i">>

H_SUBJECT_FOLDED ==
    <<"S", "u", "b", "j", "e", "c", "t", ":", " ", "h", "i", "\r", "\n", " ", " ", "t", "h",
      "e", "r", "e">>

H_TO ==
    <<"T", "o", ":", " ", "b">>

B_SHORT ==
    <<"b">>

B_DOUBLE_DOT ==
    <<"l", "i", "n", "e", "1", "\r", "\n", ".", ".", "\r", "\n">>

V_SIZE_7 ==
    <<"<", "u", "s", "e", "r", "@", "m", "a", "i", "l", ".", "c", "o", "m", ">", " ", "S", "I",
      "Z", "E", "=", "7">>

H_X_Y ==
    <<"X", ":", " ", "y">>

H_subject_A ==
    <<"s", "u", "b", "j", "e", "c", "t", ":", " ", "a">>

H_FROM_C ==
    <<"F", "R", "O", "M", ":", " ", "c">>

H_DATE_D ==
    <<"D", "a", "t", "e", ":", " ", "d">>

H_SUBJECT_E ==
    <<"S", "u", "b", "j", "e", "c", "t", ":", " ", "e">>

B_LEADING_SPACE ==
    <<" ", "b">>

B_LEADING_TAB ==
    <<"\t", "b">>
\* How many stored commands the sessions of the command family carry at most.
MaxCommands == 2

RECURSIVE Repeat(_, _)
Repeat(l, k) == IF k = 0 THEN <<>> ELSE <<l>> \o Repeat(l, k - 1)

MailValues ==
    {V_SIZE_3000, V_SIZE_7, V_NO_PARAMS, V_OTHER_PARAM, V_SIZE_SECOND, V_SIZE_FIRST,
     V_SIZE_NOT_NUMERIC}

\* Sessions that differ in the sender declaration.
MailInputs ==
    {Dialogue(L_EHLO_X, <<L_MAIL \o v>>, <<>>, B_SHORT) : v \in MailValues}
        \cup {Dialogue(L_EHLO_X, <<L_mail \o V_SIZE_3000>>, <<>>, B_SHORT)}

\* Sessions that differ in the first line.
EhloInputs ==
    {Dialogue(l, <<>>, <<>>, B_SHORT) : l \in {L_HELO_X, L_ehlo_x, L_EHLOx, S_EHLO, S_EHLO_SP}}

\* Sessions with k stored commands, and sessions whose command line has no colon.
CommandInputs ==
    {Dialogue(L_EHLO_X, Repeat(L_RCPT, k), <<H_TO>>, B_SHORT) : k \in 0..MaxCommands}
        \cup {Dialogue(L_EHLO_X, <<l>>, <<>>, B_SHORT) : l \in {L_NOOP, <<>>, L_data}}

\* The session with an empty body: c.buf starts with the sentinel when
\* readToEndOfBody runs.
EmptyBodyInput == Dialogue(L_EHLO_X, <<>>, <<>>, <<>>)

\* Sessions that differ in the headers and the body.
BodyInputs ==
    {Dialogue(L_EHLO_X, <<>>, <<H_SUBJECT_FOLDED>>, B_SHORT),
     Dialogue(L_EHLO_X, <<>>, <<>>, B_DOUBLE_DOT),
     EmptyBodyInput \o Sentinel,
     EmptyBodyInput,
     Dialogue(L_EHLO_X, <<>>, <<H_TO>>, B_LEADING_SPACE),
     Dialogue(L_EHLO_X, <<>>, <<H_TO>>, B_LEADING_TAB)}

\* A session whose only header line is followed directly by the sentinel.
HeaderThenSentinelInput == Join(<<L_EHLO_X, S_DATA>>) \o H_X_Y \o Sentinel

\* A session that sends the four mirrored headers in mixed case, another
\* header, and the subject a second time.
MirroredHeaders == <<H_subject_A, H_TO, H_FROM_C, H_DATE_D, H_X_Y, H_SUBJECT_E>>

HeaderInputs ==
    {HeaderThenSentinelInput, Dialogue(L_EHLO_X, <<>>, MirroredHeaders, B_SHORT)}

Inputs ==
    {EndToEndInput} \cup MailInputs \cup EhloInputs \cup CommandInputs \cup BodyInputs
        \cup HeaderInputs

(***************************************************************************)
(* The state.  main's id counts the connections accepted; every other       *)
(* variable of the server is a sequence with one entry per connection:     *)
(* c.buf, the place handle has reached (pc), and handle's locals.          *)
(***************************************************************************)
VARIABLES
    clients,    \* the clients that have not connected yet
    id,         \* main: id
    crashed,    \* a goroutine has panicked: the process is gone
    input,      \* input[c]: the bytes client c sends in all
    whole,      \* whole[c]: conn.Read hands over all the transport holds at once
    takesAll,   \* takesAll[c]: conn.Write takes all it is offered at once
    stream,     \* stream[c]: the bytes sent and not yet returned by conn.Read
    buf,        \* c.buf
    pc,         \* where handle stands
    ret,        \* where handle goes on after the writeLn calls under way
    out,        \* writeLn: msg, the bytes still to write
    wq,         \* the lines of the writeLn calls that follow this one at once
    line,       \* handle: line
    msg,        \* handle: msg
    size,       \* handle: size
    result,     \* how handle ended
    written,    \* the bytes conn.Write has taken, in order
    sent,       \* the lines writeLn was called with, in order
    frames,     \* the frames the Frame Reader has returned, in order
    readErr     \* the errors conn.Read has returned, with the operation reading

vars ==
    <<clients, id, crashed, input, whole, takesAll, stream, buf, pc, ret, out, wq, line, msg, size,
      result, written, sent, frames, readErr>>

Conns == 1..id

\* message{smtpHeaders: map[string]string{}, atmHeaders: map[string]string{}}
NewMessage ==
    [clientDomain |-> <<>>, smtpHeaders |-> EmptyMap, atmHeaders |-> EmptyMap,
     body |-> <<>>, from |-> <<>>, date |-> <<>>, subject |-> <<>>, to |-> <<>>]

Min(a, b) == IF a <= b THEN a ELSE b

\* The byte counts one conn.Read may return for connection c: at least one
\* byte, at most the chunk; with nothing to hand over the call waits.
ReadSizes(c) ==
    LET most == Min(Len(stream[c]), ReadChunk)
    IN  IF whole[c] THEN {most} \ {0} ELSE 1..most

\* The byte counts one conn.Write of m may take, without an error, for
\* connection c: at least one byte.
WriteSizes(c, m) == IF takesAll[c] THEN {Len(m)} ELSE 1..Len(m)

\* c.buf = append(c.buf, b[:n]...)
Appended(c, n) == buf[c] \o Slice(stream[c], 0, n)

InitWith(cs) ==
    /\ clients = cs
    /\ id = 0
    /\ crashed = FALSE
    /\ input = <<>>
    /\ whole = <<>>
    /\ takesAll = <<>>
    /\ stream = <<>>
    /\ buf = <<>>
    /\ pc = <<>>
    /\ ret = <<>>
    /\ out = <<>>
    /\ wq = <<>>
    /\ line = <<>>
    /\ msg = <<>>
    /\ size = <<>>
    /\ result = <<>>
    /\ written = <<>>
    /\ sent = <<>>
    /\ frames = <<>>
    /\ readErr = <<>>

\* A client of the bytes i whose transport splits reads and writes in every way.
AnyClient(i) == [bytes |-> i, whole |-> FALSE, takesAll |-> FALSE]

\* One client.
Init == \E i \in Inputs : InitWith(<<AnyClient(i)>>)

(***************************************************************************)
(* main: l.Accept(), id += 1, c := connection{conn, id, nil}, go c.handle() *)
(***************************************************************************)
Accept ==
    /\ ~crashed
    /\ clients # <<>>
    /\ clients' = Tail(clients)
    /\ id' = id + 1
    /\ input' = Append(input, Head(clients).bytes)
    /\ whole' = Append(whole, Head(clients).whole)
    /\ takesAll' = Append(takesAll, Head(clients).takesAll)
    /\ stream' = Append(stream, Head(clients).bytes)
    /\ buf' = Append(buf, <<>>)
    /\ pc' = Append(pc, "handle")
    /\ ret' = Append(ret, "handle")
    /\ out' = Append(out, <<>>)
    /\ wq' = Append(wq, <<>>)
    /\ line' = Append(line, <<>>)
    /\ msg' = Append(msg, NewMessage)
    /\ size' = Append(size, 0)
    /\ result' = Append(result, "running")
    /\ written' = Append(written, <<>>)
    /\ sent' = Append(sent, <<>>)
    /\ frames' = Append(frames, <<>>)
    /\ readErr' = Append(readErr, <<>>)
    /\ UNCHANGED crashed

(***************************************************************************)
(* The ways handle leaves a step.                                          *)
(***************************************************************************)
\* handle calls writeLn for each of lines, one after the other, then goes to r.
WriteLines(c, lines, r) ==
    /\ pc' = [pc EXCEPT ![c] = "writeLn"]
    /\ ret' = [ret EXCEPT ![c] = r]
    /\ out' = [out EXCEPT ![c] = Terminated(Head(lines))]
    /\ wq' = [wq EXCEPT ![c] = Tail(lines)]
    /\ sent' = [sent EXCEPT ![c] = Append(@, Head(lines))]
    /\ UNCHANGED <<crashed, result>>

\* handle goes to place p without writing.
Goto(c, p) ==
    /\ pc' = [pc EXCEPT ![c] = p]
    /\ UNCHANGED <<crashed, result, ret, out, wq, sent>>

\* logError(err); return, and the deferred c.conn.Close().  The locals of the
\* writeLn under way are gone.
Return(c, how) ==
    /\ pc' = [pc EXCEPT ![c] = "Closed"]
    /\ result' = [result EXCEPT ![c] = how]
    /\ out' = [out EXCEPT ![c] = <<>>]
    /\ wq' = [wq EXCEPT ![c] = <<>>]
    /\ UNCHANGED <<crashed, ret, sent>>

\* A run-time panic in the goroutine: nothing recovers it, the process ends.
Panic(c) ==
    /\ crashed' = TRUE
    /\ pc' = [pc EXCEPT ![c] = "Closed"]
    /\ result' = [result EXCEPT ![c] = "panic"]
    /\ UNCHANGED <<ret, out, wq, sent>>

\* The frame f that operation op has returned.
Framed(c, op, f) == frames' = [frames EXCEPT ![c] = Append(@, [op |-> op, payload |-> f])]

\* A command loop that runs while the line is empty.
CommandLoopHeadInverted(l) == IF l = <<>> THEN "readCmd" ELSE "readMultiLine"

\* for line != "" { ... }: the test at the head of the command loop.
CommandLoopHead(l) == IF l # <<>> THEN "readCmd" ELSE "readMultiLine"

\* Where handle stands once the writeLn calls under way have returned nil.
AfterWrite(r, l) == IF r = "cmdLoop" THEN CommandLoopHead(l) ELSE r

env == <<clients, id, input, whole, takesAll>>

(***************************************************************************)
(* handle, step by step.  A step is what handle does between two calls of  *)
(* the transport.                                                          *)
(***************************************************************************)
\* c.writeLn("220 mail.binutils.org ESMTP gomail")
Handle(c) ==
    /\ ~crashed
    /\ pc[c] = "handle"
    /\ WriteLines(c, <<Banner>>, "readEhlo")
    /\ UNCHANGED <<env, readErr, stream, buf, line, msg, size, written, frames>>

\* writeLn: one conn.Write that takes n bytes of msg and returns no error.
WriteLn(c) ==
    /\ ~crashed
    /\ pc[c] = "writeLn"
    /\ \E n \in WriteSizes(c, out[c]) :
        LET rest == Unwritten(out[c], n)
        IN  /\ written' = [written EXCEPT ![c] = @ \o Slice(out[c], 0, n)]
            /\ IF Len(rest) > 0
               THEN /\ out' = [out EXCEPT ![c] = rest]
                    /\ UNCHANGED <<crashed, result, pc, ret, wq, sent>>
               ELSE IF wq[c] # <<>>
               THEN WriteLines(c, wq[c], ret[c])
               ELSE /\ out' = [out EXCEPT ![c] = rest]
                    /\ pc' = [pc EXCEPT ![c] =
                                IF ret[c] = "return" THEN "Closed" ELSE AfterWrite(ret[c], line[c])]
                    /\ result' = [result EXCEPT ![c] = IF ret[c] = "return" THEN "ok" ELSE @]
                    /\ UNCHANGED <<crashed, ret, wq, sent>>
    /\ UNCHANGED <<env, readErr, stream, buf, line, msg, size, frames>>

\* writeLn: conn.Write returns an error, having taken n bytes or none.
WriteLnFail(c) ==
    /\ ~crashed
    /\ pc[c] = "writeLn"
    /\ \E n \in {0} \cup (WriteSizes(c, out[c]) \ {Len(out[c])}) :
        written' = [written EXCEPT ![c] = @ \o Slice(out[c], 0, n)]
    /\ Return(c, "write_error")
    /\ UNCHANGED <<env, readErr, stream, buf, line, msg, size, frames>>

\* readLine: one turn of its loop, a conn.Read of n bytes and the scan.
ReadLine(c) ==
    /\ ~crashed
    /\ pc[c] \in {"readEhlo", "readCmd"}
    /\ \E n \in ReadSizes(c) :
        LET b == Appended(c, n)
            ends == LineEnds(b)
        IN  /\ stream' = [stream EXCEPT ![c] = From(@, n)]
            /\ IF ends = {}
               THEN /\ buf' = [buf EXCEPT ![c] = b]
                    /\ Goto(c, pc[c])
                    /\ UNCHANGED <<line, frames>>
               ELSE /\ line' = [line EXCEPT ![c] = LineOf(b, Least(ends))]
                    /\ buf' = [buf EXCEPT ![c] = AfterLine(b, Least(ends))]
                    /\ Framed(c, "readLine", LineOf(b, Least(ends)))
                    /\ Goto(c, IF pc[c] = "readEhlo" THEN "ehlo" ELSE "cmd")
    /\ UNCHANGED <<env, readErr, msg, size, written>>

\* readMultiLine: the scan finds the end of a folded line in c.buf.
ReadMultiLine(c) ==
    /\ ~crashed
    /\ pc[c] = "readMultiLine"
    /\ MultiLineEnds(buf[c]) # {}
    /\ LET i == Least(MultiLineEnds(buf[c]))
       IN  /\ line' = [line EXCEPT ![c] = MultiLineOf(buf[c], i)]
           /\ buf' = [buf EXCEPT ![c] = AfterMultiLine(buf[c], i)]
           /\ Framed(c, "readMultiLine", MultiLineOf(buf[c], i))
    /\ Goto(c, "hdr")
    /\ UNCHANGED <<env, readErr, stream, msg, size, written>>

\* readMultiLine: the scan finds nothing; unless noMoreReads, a conn.Read of n
\* bytes, and the loop starts again.
ReadMultiLineMore(c) ==
    /\ ~crashed
    /\ pc[c] = "readMultiLine"
    /\ MultiLineEnds(buf[c]) = {}
    /\ IF noMoreReads(buf[c])
       THEN UNCHANGED <<stream, buf>>
       ELSE \E n \in ReadSizes(c) :
                /\ stream' = [stream EXCEPT ![c] = From(@, n)]
                /\ buf' = [buf EXCEPT ![c] = Appended(c, n)]
    /\ Goto(c, pc[c])
    /\ UNCHANGED <<env, readErr, line, msg, size, written, frames>>

\* readToEndOfBody: the scan finds the sentinel in c.buf; handle answers.
ReadToEndOfBody(c) ==
    /\ ~crashed
    /\ pc[c] = "readBody"
    /\ BodyEnds(buf[c]) # {}
    /\ LET body == BodyOf(buf[c], Least(BodyEnds(buf[c])))
       IN  /\ msg' = [msg EXCEPT ![c].body = body]
           /\ Framed(c, "readToEndOfBody", body)
    /\ WriteLines(c, <<S_250_OK>>, "return")
    /\ UNCHANGED <<env, readErr, stream, buf, line, size, written>>

\* readToEndOfBody: the scan finds nothing, a conn.Read of n bytes.
ReadToEndOfBodyMore(c) ==
    /\ ~crashed
    /\ pc[c] = "readBody"
    /\ BodyEnds(buf[c]) = {}
    /\ \E n \in ReadSizes(c) :
        /\ stream' = [stream EXCEPT ![c] = From(@, n)]
        /\ buf' = [buf EXCEPT ![c] = Appended(c, n)]
    /\ Goto(c, pc[c])
    /\ UNCHANGED <<env, readErr, line, msg, size, written, frames>>

\* handle stands in a conn.Read.
InRead(c) ==
    \/ pc[c] \in {"readEhlo", "readCmd"}
    \/ pc[c] = "readMultiLine" /\ MultiLineEnds(buf[c]) = {} /\ ~noMoreReads(buf[c])
    \/ pc[c] = "readBody" /\ BodyEnds(buf[c]) = {}

\* The framing operation whose conn.Read handle stands in.
ReadingOp(c) ==
    IF pc[c] = "readMultiLine" THEN "readMultiLine"
    ELSE IF pc[c] = "readBody" THEN "readToEndOfBody"
    ELSE "readLine"

\* The errors a conn.Read may return: a broken connection at any time, and
\* io.EOF, the read of zero bytes, once the peer has closed and nothing is left.
ReadErrors(c) == {"error"} \cup (IF stream[c] = <<>> THEN {"EOF"} ELSE {})

\* A handler that answers a failed conn.Read by reading again.
ReadFailRetried(c) ==
    /\ ~crashed
    /\ InRead(c)
    /\ \E e \in ReadErrors(c) : readErr' = [readErr EXCEPT ![c] = Append(@, [op |-> ReadingOp(c), err |-> e])]
    /\ Goto(c, pc[c])
    /\ UNCHANGED <<env, stream, buf, line, msg, size, written, frames>>

\* conn.Read returns the error e: the operation returns it, handle logs it and
\* returns.
ReadFail(c) ==
    /\ ~crashed
    /\ InRead(c)
    /\ \E e \in ReadErrors(c) : readErr' = [readErr EXCEPT ![c] = Append(@, [op |-> ReadingOp(c), err |-> e])]
    /\ Return(c, "read_error")
    /\ UNCHANGED <<env, stream, buf, line, msg, size, written, frames>>

RECURSIVE SettingLines(_)
SettingLines(settings) ==
    IF settings = <<>> THEN <<>>
    ELSE <<S_250_DASH \o Head(settings)>> \o SettingLines(Tail(settings))

\* The first line has been read: the EHLO check and the greeting.
Ehlo(c) ==
    /\ ~crashed
    /\ pc[c] = "ehlo"
    /\ IF HasPrefix(line[c], S_EHLO)
       THEN IF Len(S_EHLO_SP) <= Len(line[c])
            THEN /\ msg' = [msg EXCEPT ![c].clientDomain = From(line[c], Len(S_EHLO_SP))]
                 /\ WriteLines(c, <<GreetsPrefix \o From(line[c], Len(S_EHLO_SP))>>
                                    \o SettingLines(ehloSettings) \o <<S_250_HELP>>, "cmdLoop")
            ELSE \* line[len("EHLO "):] of a 4 byte line: slice bounds out of range
                 Panic(c) /\ UNCHANGED msg
       ELSE Return(c, "not_ehlo") /\ UNCHANGED msg
    /\ UNCHANGED <<env, readErr, stream, buf, line, size, written, frames>>

\* The size of a MAIL FROM value: how the parse ends, and what size becomes.
ParseSize(old, smtpValue) ==
    LET parts == SplitN2(smtpValue, S_GT_SP)
    IN  IF Len(parts) < 2
        THEN \* strings.SplitN(smtpValue, "> ", 2)[1]: index out of range
             [how |-> "panic", size |-> old]
        ELSE LET afterFrom == parts[2]
             IN  IF HasPrefix(afterFrom, S_SIZE_EQ)
                 THEN LET afterEq == SplitN2(afterFrom, S_SIZE_EQ)[2]
                      IN  [how  |-> IF Atoi(afterEq).err THEN "error" ELSE "ok",
                           size |-> Atoi(afterEq).n]
                 ELSE [how |-> "ok", size |-> old]

\* A line of the command loop has been read.
Command(c) ==
    LET pieces == SplitN2(line[c], S_COLON)
        smtpHeader == ToUpper(pieces[1])
        parsed == IF smtpHeader = S_MAIL_FROM THEN ParseSize(size[c], pieces[2])
                  ELSE [how |-> "ok", size |-> size[c]]
    IN  /\ ~crashed
        /\ pc[c] = "cmd"
        /\ IF smtpHeader = S_DATA
           THEN /\ WriteLines(c, <<S_354>>, "readMultiLine")
                /\ UNCHANGED <<msg, size>>
           ELSE IF Len(pieces) < 2
           THEN \* pieces[1]: index out of range
                Panic(c) /\ UNCHANGED <<msg, size>>
           ELSE /\ msg' = [msg EXCEPT ![c].smtpHeaders = MapPut(@, smtpHeader, pieces[2])]
                /\ size' = [size EXCEPT ![c] = parsed.size]
                /\ CASE parsed.how = "panic" -> Panic(c)
                     [] parsed.how = "error" -> Return(c, "bad_size")
                     [] OTHER -> WriteLines(c, <<S_250_OK>>, "cmdLoop")
        /\ UNCHANGED <<env, readErr, stream, buf, line, written, frames>>

\* A handler that copies the value of From into the field to.
WithHeaderMisplaced(m, atmHeader, atmValue) ==
    [m EXCEPT !.atmHeaders = MapPut(@, atmHeader, atmValue),
              !.subject = IF atmHeader = S_SUBJECT THEN atmValue ELSE @,
              !.to = IF atmHeader = S_FROM THEN atmValue ELSE @,
              !.from = IF atmHeader = S_FROM THEN atmValue ELSE @,
              !.date = IF atmHeader = S_DATE THEN atmValue ELSE @]

\* msg after the header atmHeader: atmValue has been stored.
WithHeader(m, atmHeader, atmValue) ==
    [m EXCEPT !.atmHeaders = MapPut(@, atmHeader, atmValue),
              !.subject = IF atmHeader = S_SUBJECT THEN atmValue ELSE @,
              !.to = IF atmHeader = S_TO THEN atmValue ELSE @,
              !.from = IF atmHeader = S_FROM THEN atmValue ELSE @,
              !.date = IF atmHeader = S_DATE THEN atmValue ELSE @]

\* A folded line of the header loop has been read.
Header(c) ==
    LET pieces == SplitN2(line[c], S_COLON_SP)
    IN  /\ ~crashed
        /\ pc[c] = "hdr"
        /\ IF TrimSpace(line[c]) = <<>>
           THEN Goto(c, "readBody") /\ UNCHANGED msg
           ELSE IF Len(pieces) < 2
           THEN \* pieces[1]: index out of range
                Panic(c) /\ UNCHANGED msg
           ELSE /\ msg' = [msg EXCEPT ![c] = WithHeader(@, ToUpper(pieces[1]), pieces[2])]
                /\ Goto(c, "readMultiLine")
        /\ UNCHANGED <<env, readErr, stream, buf, line, size, written, frames>>

\* The steps in which the transport does what it is asked.
Run ==
    \/ Accept
    \/ \E c \in Conns : Handle(c)
    \/ \E c \in Conns : WriteLn(c)
    \/ \E c \in Conns : ReadLine(c)
    \/ \E c \in Conns : ReadMultiLine(c)
    \/ \E c \in Conns : ReadMultiLineMore(c)
    \/ \E c \in Conns : ReadToEndOfBody(c)
    \/ \E c \in Conns : ReadToEndOfBodyMore(c)
    \/ \E c \in Conns : Ehlo(c)
    \/ \E c \in Conns : Command(c)
    \/ \E c \in Conns : Header(c)

Next ==
    \/ Run
    \/ \E c \in Conns : WriteLnFail(c)
    \/ \E c \in Conns : ReadFail(c)

Spec == Init /\ [][Next]_vars

(***************************************************************************)
(* Two clients that send the same bytes: the first's arrive in one read,   *)
(* the second's split in every way.  Writes are taken whole, and the       *)
(* transport does not fail.                                                *)
(***************************************************************************)
ValidInputs ==
    {EndToEndInput,
     Dialogue(L_EHLO_X, <<>>, <<H_SUBJECT_FOLDED>>, B_SHORT),
     Dialogue(L_EHLO_X, <<>>, <<>>, B_DOUBLE_DOT)}
        \cup {Dialogue(L_EHLO_X, Repeat(L_RCPT, k), <<H_TO>>, B_SHORT) : k \in 0..MaxCommands}

InitFrag ==
    \E i \in ValidInputs :
        InitWith(<<[bytes |-> i, whole |-> TRUE, takesAll |-> TRUE],
                   [bytes |-> i, whole |-> FALSE, takesAll |-> TRUE]>>)

SpecFrag == InitFrag /\ [][Run]_vars

(***************************************************************************)
(* What the properties speak of.                                           *)
(***************************************************************************)
IsPrefix(a, b) == Len(a) <= Len(b) /\ SubSeq(b, 1, Len(a)) = a

\* s holds sub somewhere.
Contains(s, sub) == Index(s, sub) >= 0

\* The transport failed connection c: a conn.Read or conn.Write returned an error.
TransportFailed(c) == result[c] \in {"read_error", "write_error"}

\* handle waits in a conn.Read for bytes, and the client has none left to send.
Blocked(c) == InRead(c) /\ stream[c] = <<>>

\* Connection c will do nothing more.
Settled(c) == pc[c] = "Closed" \/ Blocked(c)

\* A readLine call is under way for connection c.
InReadLine(c) == pc[c] \in {"readEhlo", "readCmd"}

E2E_DOMAIN ==
    <<"c", "l", "i", "e", "n", "t", ".", "e", "x", "a", "m", "p", "l", "e">>

E2E_MAIL_VALUE ==
    <<"<", "a", "@", "b", ".", "c", "o", "m", ">", " ", "S", "I", "Z", "E", "=", "4", "2">>

E2E_SUBJECT ==
    <<"h", "i">>

E2E_BODY ==
    <<"b", "o", "d", "y", " ", "t", "e", "x", "t">>

\* The response lines of the end-to-end session, in order.
EndToEndLines ==
    <<Banner, GreetsPrefix \o E2E_DOMAIN, S_250_DASH \o S_8BITMIME, S_250_DASH \o S_SIZE,
      S_250_DASH \o S_DSN, S_250_HELP, S_250_OK, S_354, S_250_OK>>

\* C1: whenever the client of the end-to-end session has sent all its bytes and
\* the handler has come to rest without a transport failure, however the bytes
\* were split into reads, the nine response lines have been written in order and
\* the envelope holds the domain, the command table, the size 42, the header
\* table, the subject and the body of the session.
C1_EndToEnd ==
    \A c \in Conns :
        (input[c] = EndToEndInput /\ Settled(c) /\ ~TransportFailed(c)) =>
            /\ result[c] = "ok"
            /\ sent[c] = EndToEndLines
            /\ written[c] = Join(EndToEndLines)
            /\ msg[c].clientDomain = E2E_DOMAIN
            /\ msg[c].smtpHeaders = MapPut(EmptyMap, S_MAIL_FROM, E2E_MAIL_VALUE)
            /\ size[c] = 42
            /\ msg[c].atmHeaders = MapPut(EmptyMap, S_SUBJECT, E2E_SUBJECT)
            /\ msg[c].subject = E2E_SUBJECT
            /\ msg[c].body = E2E_BODY

\* C2: when two connections have received the same valid bytes, one in a single
\* read and one split into several reads, and both have come to rest without a
\* transport failure, the Frame Reader has returned the same frames to both.
C2_FramesIndependentOfSplit ==
    (id = 2 /\ ~crashed /\ \A c \in Conns : Settled(c) /\ ~TransportFailed(c)) =>
        frames[1] = frames[2]

\* C3: no readLine call waits in a transport read while c.buf already holds a
\* complete CRLF-terminated line: such a call returns the line without reading.
C3_BufferedLineNeedsNoRead ==
    \A c \in Conns : ~(InReadLine(c) /\ LineEnds(buf[c]) # {})

H_SUBJECT_UNFOLDED ==
    <<"S", "u", "b", "j", "e", "c", "t", ":", " ", "h", "i", " ", " ", "t", "h", "e", "r", "e">>

FoldedInput == Dialogue(L_EHLO_X, <<>>, <<H_SUBJECT_FOLDED>>, B_SHORT)

DoubleDotInput == Dialogue(L_EHLO_X, <<>>, <<>>, B_DOUBLE_DOT)

\* The frames of connection c that operation op returned, in order.
RECURSIVE PayloadsOf(_, _)
PayloadsOf(fs, op) ==
    IF fs = <<>> THEN <<>>
    ELSE (IF Head(fs).op = op THEN <<Head(fs).payload>> ELSE <<>>) \o PayloadsOf(Tail(fs), op)

\* C4: the payload of every folded block holds no CRLF, and the header
\* "Subject: hi" continued by "  there" is returned as "Subject: hi  there",
\* followed by an empty folded block.
C4_FoldedBlockIsUnfolded ==
    \A c \in Conns :
        /\ \A p \in {PayloadsOf(frames[c], "readMultiLine")[k] :
                        k \in 1..Len(PayloadsOf(frames[c], "readMultiLine"))} :
               ~Contains(p, CRLF)
        /\ input[c] = FoldedInput =>
               IsPrefix(PayloadsOf(frames[c], "readMultiLine"), <<H_SUBJECT_UNFOLDED, <<>> >>)

\* C5: the payload readToEndOfBody returns holds no sentinel and is followed by
\* the sentinel in the bytes the client sent, and the body "line1 CRLF .. CRLF"
\* is returned whole.
C5_BodyEndsAtFirstSentinel ==
    \A c \in Conns :
        \A k \in 1..Len(frames[c]) :
            frames[c][k].op = "readToEndOfBody" =>
                /\ ~Contains(frames[c][k].payload, Sentinel)
                /\ Contains(input[c], frames[c][k].payload \o Sentinel)
                /\ input[c] = DoubleDotInput => frames[c][k].payload = B_DOUBLE_DOT

\* The parameters of a MAIL FROM value: the tokens after the first "> ".
RECURSIVE Tokens(_)
Tokens(s) ==
    IF s = <<>> THEN {}
    ELSE IF Index(s, <<" ">>) < 0 THEN {s}
    ELSE ({Slice(s, 0, Index(s, <<" ">>))} \ {<<>>}) \cup Tokens(From(s, Index(s, <<" ">>) + 1))

Parameters(v) == IF Index(v, S_GT_SP) < 0 THEN {} ELSE Tokens(From(v, Index(v, S_GT_SP) + 2))

SizeTokens(v) == {t \in Parameters(v) : HasPrefix(t, S_SIZE_EQ)}

NumericSizeTokens(v) == {t \in SizeTokens(v) : Atoi(From(t, Len(S_SIZE_EQ))).err = FALSE}

\* C6: once a MAIL FROM command is stored, a value with a SIZE=<digits>
\* parameter at any place has set the declared size to that number, and a value
\* with no SIZE= parameter has left it 0 and was answered with "250 OK".
C6_DeclaredSize ==
    \A c \in Conns :
        S_MAIL_FROM \in DOMAIN msg[c].smtpHeaders =>
            LET v == msg[c].smtpHeaders[S_MAIL_FROM]
            IN  /\ \A t \in NumericSizeTokens(v) : size[c] = Atoi(From(t, Len(S_SIZE_EQ))).n
                /\ SizeTokens(v) = {} =>
                       /\ size[c] = 0
                       /\ result[c] \notin {"panic", "bad_size"}
                       /\ \E k \in 1..Len(sent[c]) : sent[c][k] = S_250_OK

\* The command lines handle has dealt with: the readLine frames after the first.
CommandLines(c) ==
    LET ls == PayloadsOf(frames[c], "readLine")
        n == IF pc[c] \in {"ehlo", "cmd"} THEN Len(ls) - 1 ELSE Len(ls)
    IN  SubSeq(ls, 2, n)

IsData(l) == ToUpper(SplitN2(l, S_COLON)[1]) = S_DATA

\* The command lines that were stored: those with a colon that are not DATA.
RECURSIVE StoredCount(_)
StoredCount(ls) ==
    IF ls = <<>> THEN 0
    ELSE (IF ~IsData(Head(ls)) /\ Index(Head(ls), S_COLON) >= 0 THEN 1 ELSE 0)
             + StoredCount(Tail(ls))

DataSeen(c) == \E k \in 1..Len(CommandLines(c)) : IsData(CommandLines(c)[k])

BodyWasRead(c) == PayloadsOf(frames[c], "readToEndOfBody") # <<>>

\* The response lines up to "250 HELP", and with the acknowledgements of k commands.
GreetingLines(c) ==
    <<Banner, GreetsPrefix \o msg[c].clientDomain, S_250_DASH \o S_8BITMIME,
      S_250_DASH \o S_SIZE, S_250_DASH \o S_DSN, S_250_HELP>>

AckedLines(c) == GreetingLines(c) \o Repeat(S_250_OK, StoredCount(CommandLines(c)))

\* C7: the bytes written are a prefix of the banner, the greeting, the three
\* capability lines, "250 HELP", one "250 OK" for each stored command, "354"
\* and one "250 OK"; "354" is written only once DATA was read, the last "250 OK"
\* only once the body was read, and from the header loop to the end of the body
\* read exactly the lines up to "354" have been written.
C7_ResponseOrder ==
    \A c \in Conns :
        /\ IsPrefix(written[c], Join(AckedLines(c) \o <<S_354, S_250_OK>>))
        /\ Len(written[c]) > Len(Join(AckedLines(c))) => DataSeen(c)
        /\ Len(written[c]) > Len(Join(AckedLines(c) \o <<S_354>>)) => BodyWasRead(c)
        /\ pc[c] \in {"readMultiLine", "hdr", "readBody"} =>
               written[c] = Join(AckedLines(c) \o <<S_354>>)

\* C7's case: a session with at least one stored command has run to its end.
C7_Witness ==
    \E c \in Conns :
        /\ result[c] = "ok"
        /\ StoredCount(CommandLines(c)) >= 1
        /\ written[c] = Join(AckedLines(c) \o <<S_354, S_250_OK>>)

\* C8: once the first line is dealt with, a line that begins with "EHLO " has
\* given the client domain, the text after it; any other first line has closed
\* the connection as a failure with nothing written but the banner.
C8_EhloGate ==
    \A c \in Conns :
        (frames[c] # <<>> /\ pc[c] # "ehlo") =>
            IF HasPrefix(frames[c][1].payload, S_EHLO_SP)
            THEN msg[c].clientDomain = From(frames[c][1].payload, Len(S_EHLO_SP))
            ELSE /\ pc[c] = "Closed"
                 /\ result[c] = "not_ehlo"
                 /\ ~crashed
                 /\ sent[c] = <<Banner>>

\* C9: once a command line without a colon that is not DATA is dealt with, the
\* connection is closed by an ordinary failure: the handler has not panicked,
\* and no acknowledgement was written for that line.
C9_NoColonIsOrdinaryFailure ==
    \A c \in Conns :
        \A k \in 1..Len(CommandLines(c)) :
            (Index(CommandLines(c)[k], S_COLON) < 0 /\ ~IsData(CommandLines(c)[k])) =>
                /\ pc[c] = "Closed"
                /\ result[c] \notin {"panic", "ok", "running"}
                /\ ~crashed
                /\ sent[c] = AckedLines(c)

\* C10: while a writeLn is under way the bytes taken and the bytes still to
\* write are together the lines written so far, each followed by CRLF; when no
\* writeLn is under way and none failed, every byte of them was taken; after a
\* write error nothing was written beyond the line that failed.
C10_WriteLnDeliversAll ==
    \A c \in Conns :
        /\ pc[c] = "writeLn" => out[c] # <<>> /\ written[c] \o out[c] = Join(sent[c])
        /\ (pc[c] # "writeLn" /\ result[c] # "write_error") => written[c] = Join(sent[c])
        /\ result[c] = "write_error" =>
               /\ IsPrefix(written[c], Join(sent[c]))
               /\ IsPrefix(Join(SubSeq(sent[c], 1, Len(sent[c]) - 1)), written[c])
               /\ written[c] # Join(sent[c])

\* C10's case: one line was taken whole and the next is taken in parts.
C10_Witness ==
    \E c \in Conns :
        /\ pc[c] = "writeLn"
        /\ Len(sent[c]) >= 2
        /\ 0 < Len(out[c])
        /\ Len(out[c]) < Len(Terminated(sent[c][Len(sent[c])]))


(***************************************************************************)
(* Failed reads.                                                           *)
(***************************************************************************)

\* C11: in readLine, readMultiLine and readToEndOfBody a conn.Read that returns
\* zero bytes (io.EOF) or any other error is a hard failure: in the step in
\* which the read fails the operation returns no frame and the handler is
\* closed with the read error, and from then on the connection performs no
\* further read and receives no further frame.
C11_ReadFailureIsFinal ==
    [][\A c \in Conns :
          readErr'[c] # <<>> =>
              /\ pc'[c] = "Closed"
              /\ result'[c] = "read_error"
              /\ frames'[c] = frames[c]
              /\ stream'[c] = stream[c]
              /\ buf'[c] = buf[c]]_vars

\* A read of zero bytes ended readToEndOfBody after the header block was framed.
C11_Witness ==
    \E c \in Conns :
        /\ readErr[c] = <<[op |-> "readToEndOfBody", err |-> "EOF"]>>
        /\ pc[c] = "Closed"
        /\ Len(frames[c]) > 2

(***************************************************************************)
(* What the frame operations take out of c.buf.                            *)
(***************************************************************************)

\* The delimiter that ends a frame of the operation op.
DelimiterOf(op) == IF op = "readToEndOfBody" THEN Sentinel ELSE CRLF

\* The bytes the frames fs stand for: every payload with its delimiter.
RECURSIVE Consumed(_)
Consumed(fs) ==
    IF fs = <<>> THEN <<>>
    ELSE Head(fs).payload \o DelimiterOf(Head(fs).op) \o Consumed(Tail(fs))

\* C12: after every successful frame operation c.buf holds no byte that was
\* returned to the driver: the bytes of the frames returned so far (payloads
\* and delimiters), then c.buf, then the bytes not yet read are the bytes the
\* client sent; after readToEndOfBody c.buf starts behind the sentinel.
C12_BufferHoldsOnlyUnreturnedBytes ==
    \A c \in Conns : Consumed(frames[c]) \o buf[c] \o stream[c] = input[c]

(***************************************************************************)
(* The end of the body.                                                    *)
(***************************************************************************)

\* C13: readToEndOfBody returns whenever the sentinel is among the bytes in
\* c.buf: the handler never waits in readToEndOfBody for a further read, with
\* every byte of the client delivered, while c.buf holds the sentinel, whatever
\* its position (the first five bytes included) and however the reads were
\* split; and the body it returns is the bytes before the first occurrence.
C13_BodyReadTerminates ==
    \A c \in Conns :
        /\ (pc[c] = "readBody" /\ Contains(buf[c], Sentinel)) => ~Blocked(c)
        /\ \A k \in 1..Len(frames[c]) :
               frames[c][k].op = "readToEndOfBody" =>
                   LET rest == From(input[c], Len(Consumed(SubSeq(frames[c], 1, k - 1))))
                   IN  frames[c][k].payload = Slice(rest, 0, Index(rest, Sentinel))

(***************************************************************************)
(* The header loop and the end of the input.                               *)
(***************************************************************************)

\* C14: while the header loop runs, once the sentinel is in c.buf, or the
\* bytes in c.buf are the last the client sends, readMultiLine asks for no more
\* data: it neither waits in a conn.Read nor goes round its loop without
\* reading, it returns a line, so that the loop comes to its empty line and the
\* body is read (as for the headers "X: y" followed at once by the sentinel).
C14_HeaderLoopNeedsNoMoreData ==
    \A c \in Conns :
        (pc[c] = "readMultiLine" /\ (Contains(buf[c], Sentinel) \/ stream[c] = <<>>))
            => MultiLineEnds(buf[c]) # {}

(***************************************************************************)
(* What readMultiLine consumes.                                            *)
(***************************************************************************)

\* readMultiLine has just returned a frame to connection c.
ReturnedMultiLine(c) ==
    /\ Len(frames'[c]) = Len(frames[c]) + 1
    /\ frames'[c][Len(frames'[c])].op = "readMultiLine"

\* C15: readMultiLine consumes its payload and the CRLF that ends it, and no
\* more: in every step in which it returns, the payload, a CRLF and the buffer
\* it keeps are together the buffer it started from, and the buffer it keeps
\* begins with the byte the match stopped at, which is neither space nor tab.
C15_MultiLineConsumesPayloadAndCRLF ==
    [][\A c \in Conns :
          ReturnedMultiLine(c) =>
              /\ line'[c] \o CRLF \o buf'[c] = buf[c]
              /\ frames'[c][Len(frames'[c])].payload = line'[c]
              /\ buf'[c] # <<>>
              /\ Head(buf'[c]) \notin {" ", "\t"}]_vars

\* readMultiLine has returned the folded subject and kept what follows it.
C15_Witness ==
    \E c \in Conns :
        /\ pc[c] = "hdr"
        /\ line[c] = H_SUBJECT_FOLDED
        /\ frames[c][Len(frames[c])] = [op |-> "readMultiLine", payload |-> H_SUBJECT_FOLDED]
        /\ IsPrefix(CRLF \o B_SHORT, buf[c])

(***************************************************************************)
(* The end of the headers and the body.                                    *)
(***************************************************************************)

\* Sessions of unfolded header lines, the empty line, a body and the sentinel.
HeaderBodySessions ==
    {[headers |-> <<H_TO>>, body |-> b] : b \in {B_SHORT, B_LEADING_SPACE, B_LEADING_TAB}}
        \cup {[headers |-> MirroredHeaders, body |-> B_SHORT],
              [headers |-> <<>>, body |-> B_DOUBLE_DOT]}

\* C16: for a session of header lines, the empty line, a body and the
\* sentinel, the header loop is given the header lines and then the empty line
\* and nothing else, so that no byte of the body is taken for a header, and the
\* body that is read and stored is the bytes between the empty line and the
\* sentinel, also when the body begins with a space or a tab.
C16_HeadersEndAtEmptyLine ==
    \A c \in Conns :
        \A s \in HeaderBodySessions :
            input[c] = Dialogue(L_EHLO_X, <<>>, s.headers, s.body) =>
                /\ IsPrefix(PayloadsOf(frames[c], "readMultiLine"), s.headers \o << <<>> >>)
                /\ BodyWasRead(c) =>
                       /\ PayloadsOf(frames[c], "readToEndOfBody") = <<s.body>>
                       /\ msg[c].body = s.body

(***************************************************************************)
(* The phases of the dialogue.                                             *)
(***************************************************************************)

Phases == <<"Greeting", "AwaitGreetingReply", "CommandLoop", "HeaderLoop", "BodyRead", "Closed">>

\* The phase handle is in: the banner; the first line and the answer to it;
\* the command lines with their answers, "354" included; the header lines; the
\* body with the last answer; the end.
Phase(c) ==
    IF pc[c] = "Closed" THEN "Closed"
    ELSE IF pc[c] = "readBody" \/ (pc[c] = "writeLn" /\ ret[c] = "return") THEN "BodyRead"
    ELSE IF pc[c] \in {"readMultiLine", "hdr"} THEN "HeaderLoop"
    ELSE IF \/ pc[c] \in {"readCmd", "cmd"}
            \/ pc[c] = "writeLn" /\ ret[c] = "readMultiLine"
            \/ pc[c] = "writeLn" /\ ret[c] = "cmdLoop" /\ Len(sent[c]) > Len(GreetingLines(c))
         THEN "CommandLoop"
    ELSE IF pc[c] \in {"readEhlo", "ehlo"} \/ (pc[c] = "writeLn" /\ ret[c] = "cmdLoop")
         THEN "AwaitGreetingReply"
    ELSE "Greeting"

Rank(phase) == CHOOSE k \in 1..Len(Phases) : Phases[k] = phase

\* The command loop of c has been left for the header loop.
LeftCommandLoop(c) == Rank(Phase(c)) > Rank("CommandLoop") /\ result[c] \in {"running", "ok"}

\* The failures end the handler, and the header loop comes after DATA and "354".
PhaseOrder(c) ==
    /\ result[c] # "running" => pc[c] = "Closed"
    /\ LeftCommandLoop(c) =>
           /\ DataSeen(c)
           /\ IsData(CommandLines(c)[Len(CommandLines(c))])
           /\ IsPrefix(Join(AckedLines(c) \o <<S_354>>), written[c])

Stored(m, name) == IF name \in DOMAIN m.atmHeaders THEN m.atmHeaders[name] ELSE <<>>

\* C18: in every reachable state each of the fields subject, to, from and date
\* of the message equals the value the header table holds under SUBJECT, TO,
\* FROM and DATE, in whatever case the client wrote the name and, when the
\* header was sent more than once, the last value; and it is empty when the
\* table has no such name.
C18_MirroredFieldsFollowTable ==
    \A c \in Conns :
        /\ msg[c].subject = Stored(msg[c], S_SUBJECT)
        /\ msg[c].to = Stored(msg[c], S_TO)
        /\ msg[c].from = Stored(msg[c], S_FROM)
        /\ msg[c].date = Stored(msg[c], S_DATE)

\* The four headers were stored from names in mixed case, the subject twice,
\* beside a header that is not mirrored.
C18_Witness ==
    \E c \in Conns :
        /\ input[c] = Dialogue(L_EHLO_X, <<>>, MirroredHeaders, B_SHORT)
        /\ pc[c] = "readMultiLine"
        /\ DOMAIN msg[c].atmHeaders = {S_SUBJECT, S_TO, S_FROM, S_DATE, <<"X">>}
        /\ msg[c].subject = <<"e">>
        /\ msg[c].to = <<"b">>
        /\ msg[c].from = <<"c">>
        /\ msg[c].date = <<"d">>

(***************************************************************************)
(* The declared size and the body.                                         *)
(***************************************************************************)

\* Sender declarations that differ only in the number after SIZE=, or in
\* having the parameter at all.
SizeVariants == {V_SIZE_3000, V_SIZE_7, V_NO_PARAMS}

SizeSession(v) == Dialogue(L_EHLO_X, <<L_MAIL \o v>>, <<>>, B_SHORT)

\* The run of c on the session with the declaration v reads the body up to the
\* sentinel and, when it ends without a transport failure, has written all
\* the response lines and stored that body.
EndsAlike(c, v) ==
    input[c] = SizeSession(v) =>
        /\ BodyWasRead(c) => PayloadsOf(frames[c], "readToEndOfBody") = <<B_SHORT>>
        /\ (pc[c] = "Closed" /\ ~TransportFailed(c)) =>
               /\ result[c] = "ok"
               /\ sent[c] = GreetingLines(c) \o <<S_250_OK, S_354, S_250_OK>>
               /\ msg[c].body = B_SHORT

\* C19: the declared size is not enforced: the runs on sessions that differ
\* only in the number after SIZE=, or in having the parameter, do not differ in
\* what they read and write: each of them that ends without a transport failure
\* has written the same response lines, up to the last "250 OK", and has read
\* and stored the same body, the bytes before the sentinel.
C19_SizeDoesNotChangeTheRun ==
    \A c \in Conns : \A v \in SizeVariants : EndsAlike(c, v)

\* The runs that differ only in the number, 3000 or 7 declared for a body of
\* one byte, do end alike.
SameForEveryNumber ==
    \A c \in Conns : \A v \in SizeVariants \ {V_NO_PARAMS} : EndsAlike(c, v)

(***************************************************************************)
(* Two connections at a time.                                              *)
(***************************************************************************)

\* A well-formed session, short enough to run beside another connection.
ShortSession == Dialogue(L_EHLO_X, <<>>, <<H_TO>>, B_SHORT)

\* What the client of the other connection does: it greets and falls silent,
\* it greets with HELO, or it sends a command line without a colon.
OtherClients == {Join(<<L_EHLO_X>>), Join(<<L_HELO_X>>), Join(<<L_EHLO_X, L_NOOP>>)}

\* main accepts two connections, in either order, and runs a goroutine for each.
InitTwo ==
    \E o \in OtherClients :
        \E cs \in {<<ShortSession, o>>, <<o, ShortSession>>} :
            InitWith(<<[bytes |-> cs[1], whole |-> FALSE, takesAll |-> TRUE],
                       [bytes |-> cs[2], whole |-> FALSE, takesAll |-> TRUE]>>)

SpecTwo == InitTwo /\ [][Next]_vars

\* C20: connections are isolated: the frames of a connection are built from
\* the bytes of its own client, in their order, and whatever the other
\* connection does, a connection whose client sends a well-formed session is
\* not stopped by it: the process does not end while that connection's handler
\* is still on its way to the last "250 OK".
C20_ConnectionsAreIsolated ==
    \A c \in Conns :
        /\ IsPrefix(Consumed(frames[c]), input[c])
        /\ (input[c] = ShortSession /\ result[c] = "running") => ~crashed
====
